---- MODULE Spec2Model ----
(***************************************************************************)
(* Request-dispatch pipeline of the Podbean API client (src/src/lib.rs,    *)
(* src/src/types.rs, src/src/error.rs): the credential and its expiry      *)
(* check, the sliding-window rate limiter, the token requests and the      *)
(* typed dispatch.                                                         *)
(*                                                                         *)
(* Time is a monotonic clock counted in ticks, TicksPerSec ticks to the    *)
(* second, so that Duration::as_secs (which drops the sub-second part) is  *)
(* a real truncation.  Every async fn is cut at its await points: a step   *)
(* runs from one await to the next.                                        *)
(***************************************************************************)
EXTENDS Integers, Sequences, FiniteSets, TLC

\* ------------------------------------------------------------- bounds
TicksPerSec == 2
\* how many times the clock is moved
MaxTicks == 2
\* how many public operations of the client are started
MaxOps == 3
\* the client's requests per minute, scaled down from the 60 of
\* PodbeanClient::new so that the limiter fills up within MaxOps
ClientCapacity == 1
\* a rate limiter on its own: its largest capacity, and how many
\* wait_if_needed calls it gets
MaxCapacity == 2
MaxAdmits == 4
\* an error classifier on its own: how many responses it is given
MaxResponses == 2

\* -------------------------------------------------- program constants
WindowSecs == 60
SafetyMarginSecs == 300

Tasks == {1, 2}
Capacities == 0..MaxCapacity
\* declared lifetimes (expires_in) a token response may carry
Lifetimes == {299, 300, 3600}
\* how far the clock may move in one step: a sub-second instant or a second
Deltas == {1, TicksPerSec}
\* ... and, for a rate limiter on its own, just short of the rate window or
\* the whole of it
LongDeltas == {WindowSecs * TicksPerSec - 1, WindowSecs * TicksPerSec}

VARIABLES
    clock,                \* Instant::now(), in ticks
    ticks,                \* how many times the clock was moved
    constructed,          \* PodbeanClient::new (RateLimiter::new) has run
    requests_per_minute,  \* RateLimiter.requests_per_minute
    request_times,        \* RateLimiter.request_times
    token,                \* PodbeanClient.token: <<>> is None, <<t>> is Some(t)
    pc,                   \* per caller: the await point it is suspended at
    op,                   \* per caller: the method it is inside
    wake,                 \* per caller: when its sleep() ends
    resp,                 \* per caller: the status class of the response in hand
    result,               \* what the operation started last returned
    reqs,                 \* what the operation started last has sent and recorded
    panicked,             \* a caller hit a panic
    admitted,             \* every timestamp ever pushed to request_times
    last_by,              \* the caller that recorded the last admission
    issued,               \* tokens issued by the token endpoint
    started               \* operations started (wait_if_needed calls, for a
                          \* rate limiter on its own)

vars == <<clock, ticks, constructed, requests_per_minute, request_times, token,
          pc, op, wake, resp, result, reqs, panicked, admitted, last_by, issued,
          started>>

\* ------------------------------------------------------------ helpers
Secs(n) == n * TicksPerSec

\* Duration::as_secs: whole seconds, the sub-second part dropped
AsSecs(d) == d \div TicksPerSec

\* Instant::duration_since: saturates to zero
DurationSince(now, earlier) == IF now >= earlier THEN now - earlier ELSE 0

Max(a, b) == IF a >= b THEN a ELSE b

\* PodbeanResult of a public operation
Returned(o, k, m) == [op |-> o, kind |-> k, msg |-> m]
Pending(o) == Returned(o, "Pending", "")

NoReqs == [token |-> 0, api |-> 0, put |-> 0, read |-> 0, adm |-> 0, sent |-> <<>>]

\* the public operation a method runs for: upload_media calls make_request
PublicOp(o) == IF o = "upload_authorize" THEN "upload_media" ELSE o

\* ---------------------------------------------------------- AuthToken
\* impl From<TokenResponse> for AuthToken
AuthTokenFrom(access, lifetime, refresh, now) ==
    [access_token |-> access, token_type |-> "Bearer", expires_in |-> lifetime,
     refresh_token |-> refresh, created_at |-> now]

\* is_expired with the sub-second part of the elapsed time kept
IsExpiredExact(t, now) ==
    DurationSince(now, t.created_at) + Secs(SafetyMarginSecs) > Secs(t.expires_in)

\* is_expired without the safety margin
IsExpiredNoMargin(t, now) ==
    AsSecs(DurationSince(now, t.created_at)) > t.expires_in

\* is_expired with >= for >
IsExpiredAtMargin(t, now) ==
    AsSecs(DurationSince(now, t.created_at)) + SafetyMarginSecs >= t.expires_in

\* AuthToken::is_expired
IsExpired(t, now) ==
    AsSecs(DurationSince(now, t.created_at)) + SafetyMarginSecs > t.expires_in

\* -------------------------------------------------------- RateLimiter
\* retain with <= for <: an entry exactly 60 s old is kept
RetainThrough(times, now) ==
    SelectSeq(times, LAMBDA x : DurationSince(now, x) <= Secs(WindowSecs))

\* request_times.retain(|&time| now.duration_since(time) < 60 s)
Retain(times, now) ==
    SelectSeq(times, LAMBDA x : DurationSince(now, x) < Secs(WindowSecs))

\* RateLimiter::new
RateLimiterNew(cap) == [requests_per_minute |-> cap, request_times |-> <<>>]

\* wait_if_needed that records the new time before it sleeps
WaitIfNeededPushFirst(times, cap, now) ==
    LET kept == Retain(times, now) IN
    IF Len(kept) >= cap
    THEN IF Len(kept) = 0
         THEN [times |-> kept, next |-> "panic", wake |-> 0]
         ELSE LET wait_time == Secs(WindowSecs) - DurationSince(now, kept[1]) IN
              IF AsSecs(wait_time) > 0
              THEN [times |-> Append(kept, now), next |-> "sleep",
                    wake |-> now + wait_time]
              ELSE [times |-> Append(Tail(kept), now), next |-> "admitted", wake |-> 0]
    ELSE [times |-> Append(kept, now), next |-> "admitted", wake |-> 0]

\* wait_if_needed with the elapsed time added to the minute, not taken off it
WaitIfNeededWrongSign(times, cap, now) ==
    LET kept == Retain(times, now) IN
    IF Len(kept) >= cap
    THEN IF Len(kept) = 0
         THEN [times |-> kept, next |-> "panic", wake |-> 0]
         ELSE LET wait_time == Secs(WindowSecs) + DurationSince(now, kept[1]) IN
              IF AsSecs(wait_time) > 0
              THEN [times |-> kept, next |-> "sleep", wake |-> now + wait_time]
              ELSE [times |-> Append(Tail(kept), now), next |-> "admitted", wake |-> 0]
    ELSE [times |-> Append(kept, now), next |-> "admitted", wake |-> 0]

\* wait_if_needed that puts the new time in front of the retained ones
WaitIfNeededPushFront(times, cap, now) ==
    LET kept == Retain(times, now) IN
    IF Len(kept) >= cap
    THEN IF Len(kept) = 0
         THEN [times |-> kept, next |-> "panic", wake |-> 0]
         ELSE LET wait_time == Secs(WindowSecs) - DurationSince(now, kept[1]) IN
              IF AsSecs(wait_time) > 0
              THEN [times |-> kept, next |-> "sleep", wake |-> now + wait_time]
              ELSE [times |-> <<now>> \o Tail(kept), next |-> "admitted", wake |-> 0]
    ELSE [times |-> <<now>> \o kept, next |-> "admitted", wake |-> 0]

\* wait_if_needed that pushes at capacity without removing the oldest entry
WaitIfNeededNoEvict(times, cap, now) ==
    LET kept == Retain(times, now) IN
    IF Len(kept) >= cap
    THEN IF Len(kept) = 0
         THEN [times |-> kept, next |-> "panic", wake |-> 0]
         ELSE LET wait_time == Secs(WindowSecs) - DurationSince(now, kept[1]) IN
              IF AsSecs(wait_time) > 0
              THEN [times |-> kept, next |-> "sleep", wake |-> now + wait_time]
              ELSE [times |-> Append(kept, now), next |-> "admitted", wake |-> 0]
    ELSE [times |-> Append(kept, now), next |-> "admitted", wake |-> 0]

\* RateLimiter::wait_if_needed up to its await: what it leaves in
\* request_times and how it goes on
WaitIfNeeded(times, cap, now) ==
    LET kept == Retain(times, now) IN
    IF Len(kept) >= cap
    THEN IF Len(kept) = 0
         THEN [times |-> kept, next |-> "panic", wake |-> 0]
         ELSE LET wait_time == Secs(WindowSecs) - DurationSince(now, kept[1]) IN
              IF AsSecs(wait_time) > 0
              THEN [times |-> kept, next |-> "sleep", wake |-> now + wait_time]
              ELSE [times |-> Append(Tail(kept), now), next |-> "admitted", wake |-> 0]
    ELSE [times |-> Append(kept, now), next |-> "admitted", wake |-> 0]

\* a client shared without the exclusive borrow
SharedBorrow(t) == TRUE

\* &mut self: a caller may enter a method of the client only while no other
\* caller is inside one
ExclusiveBorrow(t) == \A u \in Tasks \ {t} : pc[u] = "idle"

\* --------------------------------------------------------------- Init
Init ==
    /\ clock = 0
    /\ ticks = 0
    /\ constructed = FALSE
    /\ requests_per_minute = 0
    /\ request_times = <<>>
    /\ token = <<>>
    /\ pc = [t \in Tasks |-> "idle"]
    /\ op = [t \in Tasks |-> "none"]
    /\ wake = [t \in Tasks |-> 0]
    /\ resp = [t \in Tasks |-> "none"]
    /\ result = Pending("none")
    /\ reqs = NoReqs
    /\ panicked = FALSE
    /\ admitted = <<>>
    /\ last_by = 0
    /\ issued = 0
    /\ started = 0

\* ------------------------------------------------- pieces of the methods
\* the caller's operation returns r
Return(t, r) ==
    /\ pc' = [pc EXCEPT ![t] = "idle"]
    /\ op' = [op EXCEPT ![t] = "none"]
    /\ result' = r

\* the caller suspends at await point p inside method o
Suspend(t, p, o) ==
    /\ pc' = [pc EXCEPT ![t] = p]
    /\ op' = [op EXCEPT ![t] = o]
    /\ result' = Pending(PublicOp(o))

\* the parameters upload_media gives the upload authorization
UploadAuthorizeParams == {"filename", "content_type"}

\* the Authorization header: format!("{} {}", token_type, access_token)
Authorization(tok) == <<tok.token_type, " ", tok.access_token>>

\* the API request make_request builds with the credential tok: for the
\* upload authorization a GET with upload_media's parameters, for any other
\* caller the method, endpoint and parameters it was given
ApiRequest(o, tok) ==
    IF o = "upload_authorize"
    THEN [method |-> "GET", endpoint |-> "/files/uploadAuthorize",
          params |-> UploadAuthorizeParams, authorization |-> Authorization(tok)]
    ELSE [method |-> "method", endpoint |-> "endpoint",
          params |-> {}, authorization |-> Authorization(tok)]

\* make_request that builds its header from the credential it found on entry
AdmittedWithStale(t, o, r) ==
    IF o = "wait_if_needed"
    THEN /\ Return(t, Returned(o, "Ok", ""))
         /\ reqs' = [r EXCEPT !.adm = @ + 1]
    ELSE IF token = <<>>
         THEN /\ Return(t, Returned(PublicOp(o), "Panic", "unwrap on None"))
              /\ reqs' = [r EXCEPT !.adm = @ + 1]
         ELSE /\ Suspend(t, "api_send", o)
              /\ reqs' = [r EXCEPT !.adm = @ + 1, !.api = @ + 1,
                                   !.sent = <<ApiRequest(o, token[1])>>]

\* wait_if_needed has pushed Instant::now() and returns: to its caller when
\* it was called on its own, and inside make_request to what follows: the
\* unwrap of the stored credential, the request built with it and its
\* send().  r is what the operation has sent so far.
Admitted(t, o, r) ==
    IF o = "wait_if_needed"
    THEN /\ Return(t, Returned(o, "Ok", ""))
         /\ reqs' = [r EXCEPT !.adm = @ + 1]
    ELSE IF token' = <<>>
         THEN /\ Return(t, Returned(PublicOp(o), "Panic", "unwrap on None"))
              /\ reqs' = [r EXCEPT !.adm = @ + 1]
         ELSE /\ Suspend(t, "api_send", o)
              /\ reqs' = [r EXCEPT !.adm = @ + 1, !.api = @ + 1,
                                   !.sent = <<ApiRequest(o, token'[1])>>]

\* `self.rate_limit.wait_if_needed().await` up to the next await: the sleep()
\* of the limiter, or what follows the admission
Throttle(t, o, r) ==
    LET w == WaitIfNeeded(request_times, requests_per_minute, clock) IN
    /\ request_times' = w.times
    /\ wake' = [wake EXCEPT ![t] = w.wake]
    /\ panicked' = (w.next = "panic")
    /\ CASE w.next = "sleep" ->
              /\ Suspend(t, "sleeping", o)
              /\ reqs' = r
              /\ UNCHANGED <<admitted, last_by>>
         [] w.next = "admitted" ->
              /\ Admitted(t, o, r)
              /\ admitted' = Append(admitted, clock)
              /\ last_by' = t
         [] OTHER ->
              /\ Return(t, Returned(PublicOp(o), "Panic", "index out of bounds"))
              /\ reqs' = r
              /\ UNCHANGED <<admitted, last_by>>

\* refresh_token that sends the token request whatever the credential holds
RefreshUnchecked(t, o, tok, r) ==
    /\ Suspend(t, "tok_send", o)
    /\ reqs' = [r EXCEPT !.token = @ + 1]
    /\ UNCHANGED <<request_times, wake, panicked, admitted, last_by>>

\* refresh_token entered after an admission was recorded: the limiter ahead
\* of the credential step
RefreshAfterAdmission(t, o, tok, r) ==
    /\ request_times' = Append(request_times, clock)
    /\ admitted' = Append(admitted, clock)
    /\ last_by' = t
    /\ IF tok # <<>> /\ tok[1].refresh_token
       THEN /\ Suspend(t, "tok_send", o)
            /\ reqs' = [r EXCEPT !.token = @ + 1, !.adm = @ + 1]
       ELSE /\ Return(t, Returned(PublicOp(o), "AuthError",
                                  "No refresh token available"))
            /\ reqs' = [r EXCEPT !.adm = @ + 1]
    /\ UNCHANGED <<wake, panicked>>

\* refresh_token with the stored credential tok, up to its await: the send()
\* of the token request, or the error when there is nothing to refresh with
Refresh(t, o, tok, r) ==
    /\ IF tok # <<>> /\ tok[1].refresh_token
       THEN /\ Suspend(t, "tok_send", o)
            /\ reqs' = [r EXCEPT !.token = @ + 1]
       ELSE /\ Return(t, Returned(PublicOp(o), "AuthError",
                                  "No refresh token available"))
            /\ reqs' = r
    /\ UNCHANGED <<request_times, wake, panicked, admitted, last_by>>

\* make_request that goes to the limiter without a credential
DispatchUnchecked(t, o, tok, r) ==
    IF tok = <<>>
    THEN Throttle(t, o, r)
    ELSE IF IsExpired(tok[1], clock)
         THEN Refresh(t, o, tok, r)
         ELSE Throttle(t, o, r)

\* make_request from its first line with the stored credential tok:
\* ensure_token, then the limiter
Dispatch(t, o, tok, r) ==
    IF tok = <<>>
    THEN /\ Return(t, Returned(PublicOp(o), "AuthError", "Not authenticated"))
         /\ reqs' = r
         /\ UNCHANGED <<request_times, wake, panicked, admitted, last_by>>
    ELSE IF IsExpired(tok[1], clock)
         THEN Refresh(t, o, tok, r)
         ELSE Throttle(t, o, r)

\* ------------------------------------------------------------ actions
\* time passes
Tick ==
    /\ ticks < MaxTicks
    /\ \E d \in Deltas : clock' = clock + d
    /\ ticks' = ticks + 1
    /\ UNCHANGED <<constructed, requests_per_minute, request_times, token, pc, op,
                   wake, resp, result, reqs, panicked, admitted, last_by, issued,
                   started>>

\* a long time passes
LongTick ==
    /\ ticks < MaxTicks
    /\ \E d \in LongDeltas : clock' = clock + d
    /\ ticks' = ticks + 1
    /\ UNCHANGED <<constructed, requests_per_minute, request_times, token, pc, op,
                   wake, resp, result, reqs, panicked, admitted, last_by, issued,
                   started>>

\* PodbeanClient::new
New ==
    /\ ~constructed
    /\ constructed' = TRUE
    /\ requests_per_minute' = RateLimiterNew(ClientCapacity).requests_per_minute
    /\ request_times' = RateLimiterNew(ClientCapacity).request_times
    /\ token' = <<>>
    /\ UNCHANGED <<clock, ticks, pc, op, wake, resp, result, reqs, panicked,
                   admitted, last_by, issued, started>>

\* RateLimiter::new(cap), for a rate limiter on its own
LimiterNew ==
    /\ ~constructed
    /\ constructed' = TRUE
    /\ \E cap \in Capacities :
         /\ requests_per_minute' = RateLimiterNew(cap).requests_per_minute
         /\ request_times' = RateLimiterNew(cap).request_times
    /\ UNCHANGED <<clock, ticks, token, pc, op, wake, resp, result, reqs,
                   panicked, admitted, last_by, issued, started>>

\* a caller may start an operation, the max-th at most
CanStart(t, max) ==
    /\ constructed
    /\ ~panicked
    /\ pc[t] = "idle"
    /\ ExclusiveBorrow(t)
    /\ started < max

\* RateLimiter::wait_if_needed, called on a rate limiter on its own, up to
\* its await
WaitIfNeededCall(t) ==
    /\ CanStart(t, MaxAdmits)
    /\ started' = started + 1
    /\ Throttle(t, "wait_if_needed", NoReqs)
    /\ UNCHANGED <<clock, ticks, constructed, requests_per_minute, token, resp,
                   issued>>

\* authorize that goes through the limiter before it sends the token request
AuthorizeThrottled(t) ==
    /\ CanStart(t, MaxOps)
    /\ started' = started + 1
    /\ Suspend(t, "tok_send", "authorize")
    /\ reqs' = [NoReqs EXCEPT !.token = 1]
    /\ request_times' = Append(request_times, clock)
    /\ admitted' = Append(admitted, clock)
    /\ last_by' = t
    /\ UNCHANGED <<clock, ticks, constructed, requests_per_minute,
                   token, wake, resp, panicked, issued>>

\* PodbeanClient::authorize up to the send() of the token request
Authorize(t) ==
    /\ CanStart(t, MaxOps)
    /\ started' = started + 1
    /\ Suspend(t, "tok_send", "authorize")
    /\ reqs' = [NoReqs EXCEPT !.token = 1]
    /\ UNCHANGED <<clock, ticks, constructed, requests_per_minute, request_times,
                   token, wake, resp, panicked, admitted, last_by, issued>>

\* PodbeanClient::refresh_token, called by the application
RefreshToken(t) ==
    /\ CanStart(t, MaxOps)
    /\ started' = started + 1
    /\ Refresh(t, "refresh_token", token, NoReqs)
    /\ UNCHANGED <<clock, ticks, constructed, requests_per_minute, token, resp,
                   issued>>

\* PodbeanClient::make_request up to its first await
MakeRequest(t) ==
    /\ CanStart(t, MaxOps)
    /\ started' = started + 1
    /\ UNCHANGED <<clock, ticks, constructed, requests_per_minute, token, resp,
                   issued>>
    /\ Dispatch(t, "make_request", token, NoReqs)

\* PodbeanClient::upload_media up to its first await: its own ensure_token,
\* then make_request for the upload authorization
UploadMedia(t) ==
    /\ CanStart(t, MaxOps)
    /\ started' = started + 1
    /\ UNCHANGED <<clock, ticks, constructed, requests_per_minute, token, resp,
                   issued>>
    /\ IF token # <<>> /\ IsExpired(token[1], clock)
       THEN Refresh(t, "upload_media", token, NoReqs)
       ELSE Dispatch(t, "upload_authorize", token, NoReqs)

\* ---------------------------------------------- handle_error_response
\* An Option is a sequence of at most one element: <<>> is None (or Err),
\* <<x>> is Some(x) (or Ok(x)).  A header value is a sequence of characters.
Digits == {"0", "1", "2", "3", "4", "5", "6", "7", "8", "9"}

DigitOf ==
    [c \in Digits |->
        CASE c = "0" -> 0 [] c = "1" -> 1 [] c = "2" -> 2 [] c = "3" -> 3
          [] c = "4" -> 4 [] c = "5" -> 5 [] c = "6" -> 6 [] c = "7" -> 7
          [] c = "8" -> 8 [] c = "9" -> 9]

\* a header byte outside visible ASCII, as one character
NonAsciiByte == "0xE9"

\* the characters HeaderValue::to_str accepts, among those used here
VisibleAscii == Digits \cup {"+", "-", ".", " ", "s", "o", "n"}

\* HeaderValue::to_str().ok()
ToStr(value) ==
    IF \A i \in 1..Len(value) : value[i] \in VisibleAscii THEN <<value>> ELSE <<>>

RECURSIVE DecimalValue(_)
DecimalValue(ds) ==
    IF ds = <<>> THEN 0
    ELSE DecimalValue(SubSeq(ds, 1, Len(ds) - 1)) * 10 + DigitOf[ds[Len(ds)]]

\* str::parse::<u64>().ok(): decimal digits after an optional "+", nothing
\* else (the values used here stay far below u64::MAX)
ParseU64(str) ==
    LET ds == IF str # <<>> /\ str[1] = "+" THEN Tail(str) ELSE str IN
    IF ds # <<>> /\ \A i \in 1..Len(ds) : ds[i] \in Digits
    THEN <<DecimalValue(ds)>>
    ELSE <<>>

\* Retry-After read leniently: a value that is no number counts as 0 seconds
RetryAfterLenient(header) ==
    IF header = <<>> THEN <<>>
    ELSE IF ToStr(header[1]) = <<>> \/ ParseU64(ToStr(header[1])[1]) = <<>>
         THEN <<0>>
         ELSE ParseU64(ToStr(header[1])[1])

\* headers().get("Retry-After").and_then(to_str).and_then(parse::<u64>)
RetryAfter(header) ==
    IF header = <<>> THEN <<>>
    ELSE IF ToStr(header[1]) = <<>> THEN <<>>
         ELSE ParseU64(ToStr(header[1])[1])

\* serde_json::Value, as far as the classifier looks into it
JsonString(str) == [type |-> "string", str |-> str]
JsonNumber(n) == [type |-> "number", num |-> n]
JsonNull == [type |-> "null"]
JsonArray(items) == [type |-> "array", items |-> items]
JsonObject(fields) == [type |-> "object", fields |-> fields]

\* the body texts a terminal response may carry
TextBothFields ==
    "{\"error\":\"invalid_request\",\"error_description\":\"bad redirect\"}"
TextBothAndMore ==
    "{\"error\":\"invalid_grant\",\"error_description\":\"expired code\",\"hint\":1}"
TextErrorOnly == "{\"error\":\"invalid_request\"}"
TextDescriptionOnly == "{\"error_description\":\"bad redirect\"}"
TextErrorNumber == "{\"error\":404,\"error_description\":\"bad redirect\"}"
TextDescriptionNull == "{\"error\":\"invalid_request\",\"error_description\":null}"
TextArray == "[\"error\",\"error_description\"]"
TextPlain == "Internal Server Error"

Texts == {TextBothFields, TextBothAndMore, TextErrorOnly, TextDescriptionOnly,
          TextErrorNumber, TextDescriptionNull, TextArray, TextPlain, ""}

\* serde_json::from_str::<serde_json::Value>(&text).ok() on these texts
FromStr(text) ==
    CASE text = TextBothFields ->
           <<JsonObject([error |-> JsonString("invalid_request"),
                         error_description |-> JsonString("bad redirect")])>>
      [] text = TextBothAndMore ->
           <<JsonObject([error |-> JsonString("invalid_grant"),
                         error_description |-> JsonString("expired code"),
                         hint |-> JsonNumber(1)])>>
      [] text = TextErrorOnly ->
           <<JsonObject([error |-> JsonString("invalid_request")])>>
      [] text = TextDescriptionOnly ->
           <<JsonObject([error_description |-> JsonString("bad redirect")])>>
      [] text = TextErrorNumber ->
           <<JsonObject([error |-> JsonNumber(404),
                         error_description |-> JsonString("bad redirect")])>>
      [] text = TextDescriptionNull ->
           <<JsonObject([error |-> JsonString("invalid_request"),
                         error_description |-> JsonNull])>>
      [] text = TextArray ->
           <<JsonArray(<<JsonString("error"), JsonString("error_description")>>)>>
      [] OTHER -> <<>>

\* Value::get(key): a member of an object, None for any other value
Get(value, key) ==
    IF value.type = "object" /\ key \in DOMAIN value.fields
    THEN <<value.fields[key]>>
    ELSE <<>>

\* Option<&Value>::and_then(|v| v.as_str())
AndThenAsStr(option) ==
    IF option # <<>> /\ option[1].type = "string" THEN <<option[1].str>> ELSE <<>>

\* the members a formatted message is made of, whatever their type
FieldText(option) ==
    IF option = <<>> THEN ""
    ELSE IF option[1].type = "string" THEN option[1].str
         ELSE option[1].type

\* a message formatted as soon as the body is a JSON object with either
\* member, of any type
ErrorMessageAnyField(text) ==
    LET json == FromStr(text) IN
    IF json # <<>>
       /\ (Get(json[1], "error") # <<>> \/ Get(json[1], "error_description") # <<>>)
    THEN FieldText(Get(json[1], "error")) \o ": "
            \o FieldText(Get(json[1], "error_description"))
    ELSE text

\* the message of the ApiError made from a body that was read
ErrorMessage(text) ==
    LET json == FromStr(text) IN
    IF json = <<>> THEN text
    ELSE LET error == AndThenAsStr(Get(json[1], "error"))
             message == AndThenAsStr(Get(json[1], "error_description"))
         IN  IF error # <<>> /\ message # <<>>
             THEN error[1] \o ": " \o message[1]
             ELSE text

\* PodbeanError, the variants the classifier makes
RateLimitError(retry_after) == [kind |-> "RateLimitError", retry_after |-> retry_after]
ApiError(code, message) == [kind |-> "ApiError", code |-> code, message |-> message]
OtherError(message) == [kind |-> "OtherError", message |-> message]

\* a terminal response: its status, its Retry-After header (an Option), and
\* what response.text().await gives (Err, or Ok with the text)
Statuses == {400, 429, 500}
HeaderValues == {<<"1", "7">>, <<"0">>, <<"+", "5">>, <<"-", "1">>,
                 <<"1", ".", "5">>, <<"s", "o", "o", "n">>, <<>>, <<NonAsciiByte>>}
RetryAfterHeaders == {<<>>} \cup {<<v>> : v \in HeaderValues}
Bodies == {<<>>} \cup {<<text>> : text \in Texts}
Responses ==
    [status : {429}, retry_after : RetryAfterHeaders, body : Bodies]
    \cup [status : Statuses \ {429}, retry_after : {<<>>, <<<<"1", "7">>>>},
          body : Bodies]

\* handle_error_response with the body unwrapped: a body that cannot be read
\* panics
HandleErrorResponseUnwrap(response) ==
    IF response.status = 429
    THEN RateLimitError(RetryAfter(response.retry_after))
    ELSE IF response.body = <<>>
         THEN [kind |-> "Panic"]
         ELSE ApiError(response.status, ErrorMessage(response.body[1]))

\* PodbeanClient::handle_error_response
HandleErrorResponse(response) ==
    IF response.status = 429
    THEN RateLimitError(RetryAfter(response.retry_after))
    ELSE IF response.body = <<>>
         THEN OtherError("Failed to read error response")
         ELSE ApiError(response.status, ErrorMessage(response.body[1]))

\* what a call of handle_error_response on its own returned, with the
\* response it was given
Classified(response, error) ==
    [op |-> "handle_error_response", kind |-> error.kind,
     response |-> response, error |-> error]

\* handle_error_response for a status that is not 2xx, once the body was
\* read (or, for 429, without reading it)
ErrorOf(o, status, readable) ==
    IF status = "429"
    THEN Returned(PublicOp(o), "RateLimitError", "")
    ELSE IF readable
         THEN Returned(PublicOp(o), "ApiError", "")
         ELSE Returned(PublicOp(o), "OtherError", "Failed to read error response")

\* a send().await whose 429 is answered by sending the request once more
SendDoneRetrying(t, p, q) ==
    /\ pc[t] = p
    /\ ~panicked
    /\ \E status \in {"transport", "2xx", "429", "err"} :
         CASE status = "transport" ->
                /\ Return(t, Returned(PublicOp(op[t]), "NetworkError", "send"))
                /\ UNCHANGED <<resp, reqs>>
           [] status = "429" /\ p = "api_send" /\ reqs.api < 2 ->
                /\ reqs' = [reqs EXCEPT !.api = @ + 1]
                /\ UNCHANGED <<pc, op, result, resp>>
           [] status = "429" ->
                /\ Return(t, Returned(PublicOp(op[t]), "RateLimitError", ""))
                /\ UNCHANGED <<resp, reqs>>
           [] OTHER ->
                /\ pc' = [pc EXCEPT ![t] = q]
                /\ resp' = [resp EXCEPT ![t] = status]
                /\ UNCHANGED <<op, result, reqs>>
    /\ UNCHANGED <<clock, ticks, constructed, requests_per_minute, request_times,
                   token, wake, panicked, admitted, last_by, issued, started>>

\* a send().await returns at await point p: a transport error and a 429 end
\* the operation, any other response goes on to its body at await point q
SendDone(t, p, q) ==
    /\ pc[t] = p
    /\ ~panicked
    /\ \E status \in {"transport", "2xx", "429", "err"} :
         CASE status = "transport" ->
                /\ Return(t, Returned(PublicOp(op[t]), "NetworkError", "send"))
                /\ UNCHANGED resp
           [] status = "429" ->
                /\ Return(t, ErrorOf(op[t], "429", TRUE))
                /\ UNCHANGED resp
           [] OTHER ->
                /\ pc' = [pc EXCEPT ![t] = q]
                /\ resp' = [resp EXCEPT ![t] = status]
                /\ UNCHANGED <<op, result>>
    /\ UNCHANGED <<clock, ticks, constructed, requests_per_minute, request_times,
                   token, wake, reqs, panicked, admitted, last_by, issued, started>>

\* the token request's send().await returns (authorize, refresh_token)
TokenSendDone(t) == SendDone(t, "tok_send", "tok_body")

\* handle_token_response: the 2xx body decodes into a TokenResponse and the
\* credential is replaced; the method that asked for it goes on
TokenDecoded(t) ==
    /\ pc[t] = "tok_body"
    /\ ~panicked
    /\ resp[t] = "2xx"
    /\ issued' = issued + 1
    /\ \E lifetime \in Lifetimes, refresh \in BOOLEAN :
         token' = <<AuthTokenFrom(issued', lifetime, refresh, clock)>>
    /\ resp' = [resp EXCEPT ![t] = "none"]
    /\ CASE op[t] \in {"make_request", "upload_authorize"} ->
              Throttle(t, op[t], reqs)
         [] op[t] = "upload_media" ->
              Dispatch(t, "upload_authorize", token', reqs)
         [] OTHER ->
              /\ Return(t, Returned(op[t], "Ok", ""))
              /\ UNCHANGED <<request_times, wake, reqs, panicked, admitted,
                             last_by>>
    /\ UNCHANGED <<clock, ticks, constructed, requests_per_minute, started>>

\* a failed token response that clears the stored credential
TokenClearedOnFailure(tok) == <<>>

\* a failed token response that stores a credential all the same
TokenStoredOnFailure(tok) == <<AuthTokenFrom(0, 0, FALSE, 0)>>

\* handle_token_response assigns self.token on the decoded 2xx path alone:
\* the stored credential after any other token response
TokenAfterFailure(tok) == tok

\* handle_token_response: the 2xx body does not decode (response.json().await?
\* gives a reqwest::Error), or the non-2xx body is classified by
\* handle_error_response
TokenFailed(t) ==
    /\ pc[t] = "tok_body"
    /\ ~panicked
    /\ resp' = [resp EXCEPT ![t] = "none"]
    /\ IF resp[t] = "2xx"
       THEN Return(t, Returned(PublicOp(op[t]), "NetworkError", "decode"))
       ELSE \E readable \in BOOLEAN : Return(t, ErrorOf(op[t], resp[t], readable))
    /\ token' = TokenAfterFailure(token)
    /\ UNCHANGED <<clock, ticks, constructed, requests_per_minute, request_times,
                   wake, reqs, panicked, admitted, last_by, issued, started>>

\* wait_if_needed after sleep(wait_time).await: evict the oldest, record now;
\* then make_request sends the API request
SleepWake(t) ==
    /\ pc[t] = "sleeping"
    /\ ~panicked
    /\ clock' = Max(clock, wake[t])
    /\ UNCHANGED <<ticks, constructed, requests_per_minute, token, wake, resp,
                   issued, started>>
    /\ IF request_times = <<>>
       THEN /\ panicked' = TRUE
            /\ Return(t, Returned(PublicOp(op[t]), "Panic", "removal index"))
            /\ UNCHANGED <<request_times, reqs, admitted, last_by>>
       ELSE /\ request_times' = Append(Tail(request_times), clock')
            /\ admitted' = Append(admitted, clock')
            /\ last_by' = t
            /\ Admitted(t, op[t], reqs)
            /\ UNCHANGED panicked

\* the API request's send().await returns
ApiSendDone(t) == SendDone(t, "api_send", "api_body")

\* upload_media that looks for file_key only after it has read the file
ApiBodyDoneLateCheck(t) ==
    /\ pc[t] = "api_body"
    /\ ~panicked
    /\ resp' = [resp EXCEPT ![t] = "none"]
    /\ IF resp[t] = "2xx"
       THEN \E body \in {"undecodable", "complete", "no_presigned_url", "no_file_key"} :
              CASE body = "undecodable" ->
                     /\ Return(t, Returned(PublicOp(op[t]), "NetworkError", "decode"))
                     /\ UNCHANGED reqs
                [] op[t] = "make_request" ->
                     /\ Return(t, Returned("make_request", "Ok", ""))
                     /\ UNCHANGED reqs
                [] body = "no_presigned_url" ->
                     /\ Return(t, Returned("upload_media", "OtherError",
                                           "Missing presigned_url in response"))
                     /\ UNCHANGED reqs
                [] body = "no_file_key" ->
                     /\ Return(t, Returned("upload_media", "OtherError",
                                           "Missing file_key in response"))
                     /\ reqs' = [reqs EXCEPT !.read = @ + 1]
                [] OTHER ->
                     /\ Suspend(t, "file_read", "upload_media")
                     /\ reqs' = [reqs EXCEPT !.read = @ + 1]
       ELSE /\ \E readable \in BOOLEAN : Return(t, ErrorOf(op[t], resp[t], readable))
            /\ UNCHANGED reqs
    /\ UNCHANGED <<clock, ticks, constructed, requests_per_minute, request_times,
                   token, wake, panicked, admitted, last_by, issued, started>>

\* make_request: the body of the API response is read: a 2xx body decodes
\* into T or not, another body is classified by handle_error_response.  For
\* the upload authorization T is a JSON value, and upload_media goes on to
\* read the file when it holds presigned_url and file_key.
ApiBodyDone(t) ==
    /\ pc[t] = "api_body"
    /\ ~panicked
    /\ resp' = [resp EXCEPT ![t] = "none"]
    /\ IF resp[t] = "2xx"
       THEN \E body \in {"undecodable", "complete", "no_presigned_url", "no_file_key"} :
              CASE body = "undecodable" ->
                     /\ Return(t, Returned(PublicOp(op[t]), "NetworkError", "decode"))
                     /\ UNCHANGED reqs
                [] op[t] = "make_request" ->
                     /\ Return(t, Returned("make_request", "Ok", ""))
                     /\ UNCHANGED reqs
                [] body = "no_presigned_url" ->
                     /\ Return(t, Returned("upload_media", "OtherError",
                                           "Missing presigned_url in response"))
                     /\ UNCHANGED reqs
                [] body = "no_file_key" ->
                     /\ Return(t, Returned("upload_media", "OtherError",
                                           "Missing file_key in response"))
                     /\ UNCHANGED reqs
                [] OTHER ->
                     /\ Suspend(t, "file_read", "upload_media")
                     /\ reqs' = [reqs EXCEPT !.read = @ + 1]
       ELSE /\ \E readable \in BOOLEAN : Return(t, ErrorOf(op[t], resp[t], readable))
            /\ UNCHANGED reqs
    /\ UNCHANGED <<clock, ticks, constructed, requests_per_minute, request_times,
                   token, wake, panicked, admitted, last_by, issued, started>>

\* upload_media: tokio::fs::read(file_path).await returns; on success the
\* PUT to the presigned URL is sent
FileReadDone(t) ==
    /\ pc[t] = "file_read"
    /\ ~panicked
    /\ \E read_ok \in BOOLEAN :
         IF read_ok
         THEN /\ pc' = [pc EXCEPT ![t] = "put_send"]
              /\ reqs' = [reqs EXCEPT !.put = @ + 1]
              /\ UNCHANGED <<op, result>>
         ELSE /\ Return(t, Returned("upload_media", "OtherError", "Failed to read file"))
              /\ UNCHANGED reqs
    /\ UNCHANGED <<clock, ticks, constructed, requests_per_minute, request_times,
                   token, wake, resp, panicked, admitted, last_by, issued, started>>

\* upload_media: the PUT's send().await returns; a 2xx status ends the
\* upload with the file key
PutSendDone(t) ==
    /\ pc[t] = "put_send"
    /\ ~panicked
    /\ \E status \in {"transport", "2xx", "429", "err"} :
         CASE status = "transport" ->
                /\ Return(t, Returned("upload_media", "NetworkError", "send"))
                /\ UNCHANGED resp
           [] status = "2xx" ->
                /\ Return(t, Returned("upload_media", "Ok", "file_key"))
                /\ UNCHANGED resp
           [] status = "429" ->
                /\ Return(t, ErrorOf(op[t], "429", TRUE))
                /\ UNCHANGED resp
           [] OTHER ->
                /\ pc' = [pc EXCEPT ![t] = "put_body"]
                /\ resp' = [resp EXCEPT ![t] = status]
                /\ UNCHANGED <<op, result>>
    /\ UNCHANGED <<clock, ticks, constructed, requests_per_minute, request_times,
                   token, wake, reqs, panicked, admitted, last_by, issued, started>>

\* upload_media that reads the body of the failed PUT and returns the key all
\* the same
PutBodyDoneReturningKey(t) ==
    /\ pc[t] = "put_body"
    /\ ~panicked
    /\ resp' = [resp EXCEPT ![t] = "none"]
    /\ Return(t, Returned("upload_media", "Ok", "file_key"))
    /\ UNCHANGED <<clock, ticks, constructed, requests_per_minute, request_times,
                   token, wake, reqs, panicked, admitted, last_by, issued, started>>

\* upload_media: handle_error_response reads the body of the failed PUT
PutBodyDone(t) ==
    /\ pc[t] = "put_body"
    /\ ~panicked
    /\ resp' = [resp EXCEPT ![t] = "none"]
    /\ \E readable \in BOOLEAN : Return(t, ErrorOf(op[t], resp[t], readable))
    /\ UNCHANGED <<clock, ticks, constructed, requests_per_minute, request_times,
                   token, wake, reqs, panicked, admitted, last_by, issued, started>>

Next ==
    \/ Tick
    \/ New
    \/ \E t \in Tasks :
         \/ Authorize(t)
         \/ RefreshToken(t)
         \/ MakeRequest(t)
         \/ UploadMedia(t)
         \/ TokenSendDone(t)
         \/ TokenDecoded(t)
         \/ TokenFailed(t)
         \/ SleepWake(t)
         \/ ApiSendDone(t)
         \/ ApiBodyDone(t)
         \/ FileReadDone(t)
         \/ PutSendDone(t)
         \/ PutBodyDone(t)

Spec == Init /\ [][Next]_vars

\* ------------------------------------------- callers that may give up
\* the caller drops the future of its operation at the await point it is
\* suspended at: nothing after that await runs
Abandon(t) ==
    /\ pc[t] # "idle"
    /\ ~panicked
    /\ Return(t, Returned(PublicOp(op[t]), "Abandoned", pc[t]))
    /\ resp' = [resp EXCEPT ![t] = "none"]
    /\ UNCHANGED <<clock, ticks, constructed, requests_per_minute, request_times,
                   token, wake, reqs, panicked, admitted, last_by, issued, started>>

NextAbandon ==
    \/ Next
    \/ \E t \in Tasks : Abandon(t)

SpecAbandon == Init /\ [][NextAbandon]_vars

\* a rate limiter on its own: RateLimiter::new, then wait_if_needed calls
NextLimiter ==
    \/ Tick
    \/ LongTick
    \/ LimiterNew
    \/ \E t \in Tasks :
         \/ WaitIfNeededCall(t)
         \/ SleepWake(t)

SpecLimiter == Init /\ [][NextLimiter]_vars

\* ... whose sleep(wait_time) ends: the runtime's timer wakes every sleeper
SpecLimiterFair == SpecLimiter /\ \A t \in Tasks : WF_vars(SleepWake(t))

\* --------------------------------------- an error classifier on its own
\* a client that was just constructed, or one that was authorized and has
\* recorded an admission
InitClassifier ==
    /\ clock = 0
    /\ ticks = 0
    /\ constructed = TRUE
    /\ requests_per_minute = RateLimiterNew(ClientCapacity).requests_per_minute
    /\ \E authenticated \in BOOLEAN :
         /\ token = IF authenticated
                    THEN <<AuthTokenFrom(1, 3600, TRUE, 0)>> ELSE <<>>
         /\ issued = IF authenticated THEN 1 ELSE 0
         /\ request_times = IF authenticated THEN <<0>> ELSE <<>>
         /\ admitted = request_times
         /\ last_by = IF authenticated THEN 1 ELSE 0
    /\ pc = [t \in Tasks |-> "idle"]
    /\ op = [t \in Tasks |-> "none"]
    /\ wake = [t \in Tasks |-> 0]
    /\ resp = [t \in Tasks |-> "none"]
    /\ result = Pending("none")
    /\ reqs = NoReqs
    /\ panicked = FALSE
    /\ started = 0

\* handle_error_response is given a terminal response: a 429 is classified
\* at once, any other status goes on to response.text().await
HandleErrorResponseCall(t) ==
    /\ CanStart(t, MaxResponses)
    /\ started' = started + 1
    /\ \E response \in Responses :
         IF response.status = 429
         THEN /\ result' = Classified(response, HandleErrorResponse(response))
              /\ UNCHANGED <<pc, op, resp>>
         ELSE /\ pc' = [pc EXCEPT ![t] = "err_body"]
              /\ op' = [op EXCEPT ![t] = "handle_error_response"]
              /\ resp' = [resp EXCEPT ![t] = response]
              /\ UNCHANGED result
    /\ UNCHANGED <<clock, ticks, constructed, requests_per_minute, request_times,
                   token, wake, reqs, panicked, admitted, last_by, issued>>

\* handle_error_response: response.text().await returns and the error is made
ErrorBodyRead(t) ==
    /\ pc[t] = "err_body"
    /\ ~panicked
    /\ result' = Classified(resp[t], HandleErrorResponse(resp[t]))
    /\ pc' = [pc EXCEPT ![t] = "idle"]
    /\ op' = [op EXCEPT ![t] = "none"]
    /\ resp' = [resp EXCEPT ![t] = "none"]
    /\ UNCHANGED <<clock, ticks, constructed, requests_per_minute, request_times,
                   token, wake, reqs, panicked, admitted, last_by, issued, started>>

NextClassifier ==
    \E t \in Tasks :
        \/ HandleErrorResponseCall(t)
        \/ ErrorBodyRead(t)

SpecClassifier == InitClassifier /\ [][NextClassifier]_vars

\* ============================================================ properties
\* how many recorded admissions fall in the 60-second window that opens at
\* the i-th one
InWindowFrom(i) ==
    Cardinality({j \in 1..Len(admitted) :
                    /\ admitted[j] >= admitted[i]
                    /\ admitted[j] - admitted[i] < Secs(WindowSecs)})

\* no 60-second window holds more recorded admissions than the capacity
WindowsWithinCapacity ==
    \A i \in 1..Len(admitted) : InWindowFrom(i) <= requests_per_minute

\* at most one caller is inside a method of the client (or of the limiter)
OneCallerInside == Cardinality({t \in Tasks : pc[t] # "idle"}) <= 1

\* while a caller sleeps inside wait_if_needed nobody else touches the window
NoInterleaving ==
    \A t \in Tasks :
        pc[t] = "sleeping" /\ pc'[t] = "sleeping" => request_times' = request_times

\* the exclusive borrow keeps the admissions of two callers apart
MutualExclusion == [][OneCallerInside' /\ NoInterleaving]_vars

\* a caller is suspended in the limiter's sleep with the window full
SleepingAtCapacity ==
    \E t \in Tasks :
        /\ pc[t] = "sleeping"
        /\ Len(request_times) = requests_per_minute
        /\ clock < wake[t]

\* C1: for every capacity C >= 1 and every sequence of wait_if_needed calls
\* on one rate limiter, no 60-second rolling window ever contains more than
\* C recorded admission timestamps.
C1_NoWindowOverCapacity ==
    requests_per_minute >= 1 => WindowsWithinCapacity

\* C2: the admissions of one client instance are mutually exclusive (the
\* admit of one caller never interleaves with that of another), so two
\* callers are never both admitted past capacity in the same window.
C2_ExclusiveAdmissions ==
    [][/\ OneCallerInside'
       /\ NoInterleaving
       /\ \A t \in Tasks :
            (/\ requests_per_minute >= 1
             /\ Len(admitted') = Len(admitted) + 1
             /\ last_by' = t
             /\ last_by \notin {0, t})
            => WindowsWithinCapacity']_vars

\* C10: a rate limiter with capacity 0 is rejected at construction: no
\* wait_if_needed call ever runs on a limiter of capacity 0, and none panics.
C10_ZeroCapacityRejected ==
    /\ started > 0 => requests_per_minute >= 1
    /\ ~panicked

\* ------------------------------------------------ the limiter's window
\* the step is a call of wait_if_needed on a rate limiter on its own
CallsWaitIfNeeded == started' = started + 1

\* every retained timestamp is less than 60 seconds older than now
RetainedWithinWindow(times, now) ==
    \A i \in 1..Len(times) : DurationSince(now, times[i]) < Secs(WindowSecs)

\* with capacity 2, the third of three calls made with no delay between them
\* (the clock moves only through the limiter's own sleep) is recorded no
\* earlier than 60 seconds after the first
ThirdBackToBackWaits ==
    (requests_per_minute = 2 /\ ticks = 0 /\ Len(admitted) >= 3)
        => admitted[3] - admitted[1] >= Secs(WindowSecs)

\* C11: a wait_if_needed call that, after pruning, retains fewer timestamps
\* than the capacity returns without suspending; one that retains as many as
\* the capacity suspends for 60 s - (now - oldest retained), then evicts
\* exactly the oldest timestamp and records the new admission.
C11_FullWindowSuspends ==
    [][requests_per_minute >= 1 =>
         LET kept == Retain(request_times, clock) IN
         /\ (CallsWaitIfNeeded /\ Len(kept) < requests_per_minute)
               => /\ \A t \in Tasks : pc'[t] = "idle"
                  /\ request_times' = Append(kept, clock)
         /\ (CallsWaitIfNeeded /\ Len(kept) >= requests_per_minute)
               => \E t \in Tasks :
                     /\ pc'[t] = "sleeping"
                     /\ wake'[t] = kept[1] + Secs(WindowSecs)
                     /\ request_times' = kept
         /\ \A t \in Tasks :
               (pc[t] = "sleeping" /\ pc'[t] = "idle")
               => /\ clock' >= wake[t]
                  /\ request_times' = Append(Tail(request_times), clock')]_vars

\* C12: for every capacity C >= 1, after every wait_if_needed (and at every
\* other moment) the rate window retains at most C timestamps.
C12_WindowBoundedByCapacity ==
    requests_per_minute >= 1 => Len(request_times) <= requests_per_minute

C12_Witness ==
    /\ requests_per_minute = 2
    /\ Len(request_times) = 2
    /\ Len(admitted) = 4
    /\ \A t \in Tasks : pc[t] = "idle"

\* C13 as claimed: at any observation point, between operations as well as
\* right after a wait_if_needed, every retained timestamp is within 60
\* seconds of the current time.
C13_RetainedWithinWindowAlways ==
    RetainedWithinWindow(request_times, clock)

\* C13: right after the pruning of a wait_if_needed call, and so when a call
\* returns without suspending, every retained timestamp is less than 60
\* seconds older than the time the call read.
C13_RetainedWithinWindowAfterPruning ==
    [][CallsWaitIfNeeded => RetainedWithinWindow(request_times', clock')]_vars

C13_Witness ==
    /\ requests_per_minute = 2
    /\ Len(admitted) = 2
    /\ request_times = <<admitted[2]>>
    /\ admitted[2] - admitted[1] = Secs(WindowSecs)
    /\ clock = admitted[2]

\* C26: local throttling never fails and never blocks forever: for every
\* capacity C >= 1 a wait_if_needed call produces no error and no panic,
\* asks for a sleep of 60 seconds at most, and, once suspended, eventually
\* returns with its admission recorded.
C26_ThrottleReturns ==
    /\ [](requests_per_minute >= 1
            => /\ ~panicked
               /\ result.kind \in {"Pending", "Ok"}
               /\ \A t \in Tasks :
                    pc[t] = "sleeping" => wake[t] - clock <= Secs(WindowSecs))
    /\ \A t \in Tasks :
         (requests_per_minute >= 1 /\ pc[t] = "sleeping")
            ~> (/\ pc[t] = "idle"
                /\ last_by = t
                /\ result = Returned("wait_if_needed", "Ok", "")
                /\ Len(request_times) >= 1
                /\ request_times[Len(request_times)] = clock)

C26_Witness ==
    /\ requests_per_minute = 2
    /\ \E t \in Tasks : pc[t] = "sleeping" /\ wake[t] - clock = Secs(WindowSecs) - 1
    /\ Len(request_times) = 2

\* C27: after any sequence of wait_if_needed calls the window's timestamps
\* are retained oldest first (non-decreasing), so the entry at index 0 that
\* a call waits on and evicts is the oldest retained admission.
C27_OldestFirst ==
    \A i, j \in 1..Len(request_times) :
        i <= j => request_times[i] <= request_times[j]

C27_Witness ==
    /\ requests_per_minute = 2
    /\ Len(admitted) = 4
    /\ Len(request_times) = 2
    /\ request_times[1] < request_times[2]
    /\ admitted[1] < request_times[1]

\* ------------------------------------------------- the error classifier
\* a call of handle_error_response has returned
IsClassified == result.op = "handle_error_response"

\* the integer seconds each Retry-After header used here stands for, if any
IntegerSeconds(header) ==
    CASE header = << <<"1", "7">> >> -> <<17>>
      [] header = << <<"0">> >> -> <<0>>
      [] header = << <<"+", "5">> >> -> <<5>>
      [] OTHER -> <<>>

\* the body is a JSON object whose error and error_description are strings
BothFieldsAreStrings(text) == text \in {TextBothFields, TextBothAndMore}

\* the step returns from handle_error_response
Classifies == result' # result \/ \E t \in Tasks : pc[t] = "err_body" /\ pc'[t] = "idle"

\* C16: for every terminal response with status 429 the classifier returns
\* RateLimitError{retry_after}, retry_after being the Retry-After header
\* parsed as integer seconds (none when absent or not an integer), whatever
\* the body holds and whether or not it can be read.
C16_RateLimitedFromHeaderAlone ==
    (IsClassified /\ result.response.status = 429)
        => result.error =
              [kind |-> "RateLimitError",
               retry_after |-> IntegerSeconds(result.response.retry_after)]

C16_Witness ==
    /\ IsClassified
    /\ result.response.status = 429
    /\ result.response.retry_after = << <<"1", "7">> >>
    /\ result.response.body = <<TextBothFields>>
    /\ result.error.retry_after = <<17>>

\* C17: for every terminal response whose status is not 429 and whose body
\* is readable the classifier returns ApiError carrying that status; the
\* message is "{error}: {error_description}" when the body is JSON with both
\* fields present as strings, and the raw body text in every other case.
C17_ApiErrorFromBody ==
    (/\ IsClassified
     /\ result.response.status # 429
     /\ result.response.body # <<>>)
        => LET text == result.response.body[1] IN
           /\ result.error.kind = "ApiError"
           /\ result.error.code = result.response.status
           /\ text = TextBothFields
                => result.error.message = "invalid_request: bad redirect"
           /\ text = TextBothAndMore
                => result.error.message = "invalid_grant: expired code"
           /\ ~BothFieldsAreStrings(text) => result.error.message = text

C17_Witness ==
    /\ IsClassified
    /\ result.response.status = 400
    /\ result.response.body = <<TextErrorNumber>>
    /\ result.error = ApiError(400, TextErrorNumber)

\* C18: the classifier is total and deterministic: every terminal response,
\* one whose body cannot be read included (that gives OtherError), yields
\* exactly one classified error, the same for the same response, never a
\* panic, and the classifier changes neither the credential nor the window.
C18_ClassifierTotal ==
    [][Classifies =>
         /\ result'.op = "handle_error_response"
         /\ result'.kind \in {"RateLimitError", "ApiError", "OtherError"}
         /\ result'.error.kind = result'.kind
         /\ (result'.response.status # 429 /\ result'.response.body = <<>>)
               => result'.kind = "OtherError"
         /\ (IsClassified /\ result.response = result'.response)
               => result'.error = result.error
         /\ ~panicked'
         /\ token' = token
         /\ request_times' = request_times
         /\ requests_per_minute' = requests_per_minute]_vars

C18_Witness ==
    /\ IsClassified
    /\ result.response.status = 500
    /\ result.response.body = <<>>
    /\ result.kind = "OtherError"
    /\ token # <<>>
    /\ request_times # <<>>
    /\ started = MaxResponses

\* ------------------------------------------------- the client's pipeline
\* the step starts operation o
Starts(o) == started' = started + 1 /\ result'.op = o

\* the step starts a dispatch: make_request, directly or for an upload
StartsDispatch == Starts("make_request") \/ Starts("upload_media")

\* the stored credential is present and expired
HoldsExpired == token # <<>> /\ IsExpired(token[1], clock)

\* what a token request that failed returns: a transport error or an
\* undecodable body (NetworkError), or a classified non-2xx response
TokenFailureKinds == {"NetworkError", "RateLimitError", "ApiError", "OtherError"}

\* the step ends caller t's token request in failure
TokenRequestFails(t) ==
    /\ pc[t] \in {"tok_send", "tok_body"}
    /\ pc'[t] = "idle"
    /\ result'.kind \in TokenFailureKinds

\* caller t is inside make_request past the credential step and the limiter
InDispatchSent(t) ==
    /\ op[t] \in {"make_request", "upload_authorize"}
    /\ pc[t] \in {"api_send", "api_body"}

\* what a dispatch that sent its API request may return
DispatchFailureKinds == {"NetworkError", "RateLimitError", "ApiError", "OtherError"}

\* C14: within one dispatch the credential step (with its refresh) comes
\* first, the admission second, the send third: every API request sent is
\* preceded by exactly one admission recorded by the same invocation, and a
\* dispatch whose credential step fails records no admission.
C14_CredentialThenAdmissionThenSend ==
    /\ reqs.api = reqs.adm
    /\ reqs.adm <= 1
    /\ \A t \in Tasks :
          /\ pc[t] \in {"tok_send", "tok_body", "sleeping"} => reqs.adm = 0
          /\ pc[t] \in {"sleeping", "api_send", "api_body"} => token # <<>>
    /\ result.kind = "AuthError" => reqs.adm = 0
    /\ (reqs.token >= 1 /\ reqs.adm = 1)
          => admitted[Len(admitted)] >= token[1].created_at

C14_Witness ==
    /\ \E t \in Tasks : pc[t] = "api_send" /\ op[t] = "make_request"
    /\ reqs.token = 1
    /\ reqs.adm = 1
    /\ reqs.api = 1

\* C15: a dispatch that passes the credential step sends exactly one API
\* request, preceded by at most one token-refresh request, sent only when
\* the credential was expired; a transport failure or a non-2xx response,
\* 429 included, is returned to the caller without a second attempt.
C15_OneRequestNoRetry ==
    [][/\ reqs'.api <= 1
       /\ result'.op = "make_request" => reqs'.token <= 1
       /\ Starts("make_request")
            => reqs'.token =
                  (IF HoldsExpired /\ token[1].refresh_token THEN 1 ELSE 0)
       /\ \A t \in Tasks :
            InDispatchSent(t)
            => /\ reqs.api = 1
               /\ reqs'.api = 1
               /\ reqs'.token = reqs.token
               /\ reqs'.adm = reqs.adm
               /\ pc'[t] \in {pc[t], "api_body", "file_read", "idle"}
               /\ pc[t] = "api_body" => pc'[t] # "api_send"
               /\ (pc[t] = "api_body" /\ resp[t] # "2xx" /\ pc'[t] # pc[t])
                     => /\ pc'[t] = "idle"
                        /\ result'.kind \in {"ApiError", "OtherError"}
               /\ (pc'[t] = "idle" /\ op[t] = "make_request")
                     => /\ result'.op = "make_request"
                        /\ result'.kind \in DispatchFailureKinds \cup {"Ok"}]_vars

C15_Witness ==
    /\ result = Returned("make_request", "RateLimitError", "")
    /\ reqs.token = 1
    /\ reqs.api = 1
    /\ reqs.adm = 1

\* the step ends caller t's method on a 2xx response whose body it read
EndsOn2xxBody(t, p) ==
    /\ pc[t] = p
    /\ resp[t] = "2xx"
    /\ pc'[t] = "idle"

\* C19: a dispatch that receives a 2xx response whose body does not decode
\* into the requested shape fails with the serialization error variant, not
\* with the transport (network) error variant, and never returns a value.
C19_UndecodableIsSerializationError ==
    [][\A t \in Tasks :
         (EndsOn2xxBody(t, "api_body") /\ op[t] = "make_request")
         => /\ result'.kind \in {"Ok", "SerializationError"}
            /\ result'.kind # "NetworkError"]_vars

\* C20: an authorize whose response is not 2xx, or is 2xx and undecodable,
\* fails with the authentication error variant; a successful authorize
\* leaves the client with a credential created at that moment.
C20_AuthorizeFailsWithAuthError ==
    [][\A t \in Tasks :
         (op[t] = "authorize" /\ pc[t] \in {"tok_send", "tok_body"}
            /\ pc'[t] = "idle")
         => \/ result' = Returned("authorize", "NetworkError", "send")
            \/ result'.kind = "AuthError"
            \/ /\ result'.kind = "Ok"
               /\ token' # <<>>
               /\ token' # token
               /\ token'[1].created_at = clock']_vars

\* ------------------------------------------------------------ the upload
\* what upload_media returns when the upload authorization lacks a field
MissingFieldMessages ==
    {"Missing presigned_url in response", "Missing file_key in response"}

\* C21: an upload whose authorize-phase response lacks presigned_url or
\* file_key fails with an error, not a panic, before any transfer-phase
\* action: the file is not read and no PUT is sent.
C21_MissingFieldFailsBeforeTransfer ==
    (result.op = "upload_media" /\ result.msg \in MissingFieldMessages)
        => /\ result.kind = "OtherError"
           /\ ~panicked
           /\ reqs.api = 1
           /\ reqs.read = 0
           /\ reqs.put = 0
           /\ \A t \in Tasks : pc[t] = "idle"

C21_Witness ==
    /\ result = Returned("upload_media", "OtherError", "Missing file_key in response")
    /\ reqs.api = 1
    /\ reqs.read = 0
    /\ reqs.put = 0

\* C22: an upload returns the file key only after both phases succeeded in
\* order, the authorize dispatch and then the PUT; a PUT response that is not
\* 2xx is classified by handle_error_response and the upload returns that
\* error and no key.
C22_KeyAfterBothPhases ==
    [][\A t \in Tasks :
         /\ (result'.op = "upload_media" /\ result'.kind = "Ok" /\ result' # result)
               => /\ result'.msg = "file_key"
                  /\ \E u \in Tasks : pc[u] = "put_send" /\ pc'[u] = "idle"
                  /\ reqs'.api = 1 /\ reqs'.read = 1 /\ reqs'.put = 1
         /\ pc[t] = "put_send"
               => reqs.api = 1 /\ reqs.read = 1 /\ reqs.put = 1
         /\ (pc[t] = "put_send" /\ pc'[t] = "put_body") => resp'[t] = "err"
         /\ (pc[t] = "put_body" /\ pc'[t] # "put_body")
               => /\ pc'[t] = "idle"
                  /\ resp[t] # "2xx"
                  /\ result'.op = "upload_media"
                  /\ result'.kind \in {"ApiError", "OtherError"}
                  /\ result'.msg # "file_key"
                  /\ reqs' = reqs]_vars

C22_Witness ==
    /\ result = Returned("upload_media", "Ok", "file_key")
    /\ reqs.api = 1
    /\ reqs.read = 1
    /\ reqs.put = 1

\* caller t's dispatch has built and sent its API request
RequestSent(t) == pc[t] \in {"api_send", "api_body"}

\* C23: the authorize phase of every upload dispatches a GET to the
\* upload-authorization endpoint whose parameters include filename,
\* content_type and filesize, all three.
C23_UploadAuthorizeParams ==
    \A t \in Tasks :
        (op[t] = "upload_authorize" /\ RequestSent(t))
        => /\ reqs.sent # <<>>
           /\ reqs.sent[1].method = "GET"
           /\ reqs.sent[1].endpoint = "/files/uploadAuthorize"
           /\ {"filename", "content_type", "filesize"} \subseteq reqs.sent[1].params

\* C28: every API request a dispatch sends carries the Authorization header
\* "{token_type} {access_token}" of the credential the client stores at send
\* time; a dispatch that refreshed the credential first sends the new
\* credential, the one issued last, never the stale one.
C28_AuthorizationOfStoredCredential ==
    \A t \in Tasks :
        RequestSent(t)
        => /\ reqs.sent # <<>>
           /\ token # <<>>
           /\ reqs.sent[1].authorization
                 = <<token[1].token_type, " ", token[1].access_token>>
           /\ reqs.token >= 1 => reqs.sent[1].authorization[3] = issued

C28_Witness ==
    /\ \E t \in Tasks : pc[t] = "api_send" /\ op[t] = "make_request"
    /\ reqs.token = 1
    /\ issued = 2
    /\ reqs.sent = <<ApiRequest("make_request", token[1])>>
    /\ token[1].access_token = 2

\* C29: whenever a dispatch reaches the point where it builds its request,
\* after the credential step and the admission, the client holds a
\* credential: token.as_ref().unwrap() never panics, whatever came before.
C29_UnwrapNeverFails ==
    /\ result.kind # "Panic"
    /\ ~panicked
    /\ \A t \in Tasks : pc[t] \in {"sleeping", "api_send", "api_body"} => token # <<>>
    /\ reqs.adm >= 1 => token # <<>>

C29_Witness ==
    /\ \E t \in Tasks : pc[t] = "api_send"
    /\ reqs.adm = 1
    /\ reqs.token = 0
    /\ started = MaxOps
    /\ token # <<>>

\* the operations that dispatch
DispatchOps == {"make_request", "upload_media"}

\* how many admissions the step records
AdmissionsRecorded == Len(admitted') - Len(admitted)

Abandons == result'.kind = "Abandoned" /\ result' # result

\* the stored credential is one whole credential made from a token response
WholeCredential(tok) ==
    tok # <<>>
    => /\ tok[1] = AuthTokenFrom(tok[1].access_token, tok[1].expires_in,
                                 tok[1].refresh_token, tok[1].created_at)
       /\ tok[1].access_token \in 1..issued
       /\ tok[1].expires_in \in Lifetimes
       /\ tok[1].created_at <= clock

\* the window holds the last admissions recorded, oldest first
WindowOfRecordedAdmissions ==
    /\ Len(request_times) <= Len(admitted)
    /\ request_times = SubSeq(admitted, Len(admitted) - Len(request_times) + 1,
                              Len(admitted))
    /\ \A i, j \in 1..Len(request_times) :
          i <= j => request_times[i] <= request_times[j]

\* C25: abandoning a dispatch at any suspension point leaves the shared
\* state uncorrupted: the window holds at most capacity entries, oldest
\* first, all of them recorded admissions (none for an admission abandoned
\* during its wait), and the stored credential is the old one or the new
\* one, whole.
C25_AbandonLeavesStateWhole ==
    [][Abandons
       => /\ request_times' = request_times
          /\ admitted' = admitted
          /\ token' = token
          /\ Len(request_times') <= requests_per_minute'
          /\ WindowOfRecordedAdmissions'
          /\ WholeCredential(token')
          /\ result'.msg = "sleeping" => reqs'.adm = 0 /\ reqs'.api = 0
          /\ \A t \in Tasks : pc'[t] = "idle"]_vars

C25_Witness ==
    /\ result = Returned("make_request", "Abandoned", "sleeping")
    /\ reqs.token = 1
    /\ reqs.adm = 0
    /\ Len(request_times) = requests_per_minute
    /\ token # <<>>
    /\ token[1].access_token = 2

\* C30: only dispatches consume admissions: the token requests (authorize,
\* refresh_token, the refresh inside a dispatch) and the upload's file read
\* and PUT leave the rate window as it is, and one upload records exactly
\* one admission.
C30_OnlyDispatchesAdmit ==
    [][/\ AdmissionsRecorded
            = reqs'.adm - (IF started' = started THEN reqs.adm ELSE 0)
       /\ AdmissionsRecorded = 0 => request_times' = request_times
       /\ result'.op \in {"authorize", "refresh_token"}
            => AdmissionsRecorded = 0 /\ reqs'.adm = 0
       /\ \A t \in Tasks :
            /\ (pc[t] \in {"tok_send", "tok_body"}
                  /\ pc'[t] \in {"tok_send", "tok_body", "idle"})
               => AdmissionsRecorded = 0
            /\ pc'[t] \in {"tok_send", "tok_body"} => AdmissionsRecorded = 0
            /\ pc[t] \in {"file_read", "put_send", "put_body"}
               => AdmissionsRecorded = 0 /\ reqs.adm = 1 /\ reqs'.adm = 1
       /\ (result'.op = "upload_media" /\ result'.kind = "Ok")
            => reqs'.adm = 1]_vars

C30_Witness ==
    /\ result = Returned("upload_media", "Ok", "file_key")
    /\ reqs.token = 2
    /\ reqs.adm = 1
    /\ reqs.put = 1
    /\ Len(admitted) = 1

\* C3: a dispatch on a client that holds no credential fails at once with
\* the authentication error "Not authenticated": it sends no request,
\* records no admission and leaves the client without a credential.
C3_UnauthenticatedDispatchFails ==
    [][StartsDispatch /\ token = <<>>
       => /\ result'.kind = "AuthError"
          /\ result'.msg = "Not authenticated"
          /\ reqs' = NoReqs
          /\ request_times' = request_times
          /\ admitted' = admitted
          /\ token' = <<>>
          /\ \A t \in Tasks : pc'[t] = "idle"]_vars

C3_Witness ==
    /\ result = Returned("make_request", "AuthError", "Not authenticated")
    /\ token = <<>>
    /\ reqs = NoReqs
    /\ admitted = <<>>

\* C4: a dispatch with an expired credential that holds no refresh secret
\* fails with an authentication error, sends no request and leaves the
\* stored credential as it was; the credential reports expired from then on.
C4_NoRefreshSecretFails ==
    [][/\ (StartsDispatch /\ HoldsExpired /\ ~token[1].refresh_token)
          => /\ result'.kind = "AuthError"
             /\ reqs' = NoReqs
             /\ token' = token
             /\ \A t \in Tasks : pc'[t] = "idle"
       /\ (HoldsExpired /\ token' = token) => IsExpired(token'[1], clock')]_vars

C4_Witness ==
    /\ result = Returned("make_request", "AuthError", "No refresh token available")
    /\ HoldsExpired
    /\ ~token[1].refresh_token
    /\ reqs = NoReqs

\* C5: a failed token request (transport failure, non-2xx response or
\* undecodable 2xx body) leaves the stored credential as it was; the stored
\* credential changes only when a token request returns a decodable 2xx body.
C5_FailedTokenRequestKeepsCredential ==
    [][/\ \A t \in Tasks : TokenRequestFails(t) => token' = token
       /\ token' # token
          => \E t \in Tasks :
                /\ pc[t] = "tok_body"
                /\ resp[t] = "2xx"
                /\ issued' = issued + 1
                /\ token'[1].access_token = issued']_vars

C5_Witness ==
    /\ result = Returned("refresh_token", "NetworkError", "decode")
    /\ token # <<>>
    /\ token[1].access_token = issued

\* C6: once the client holds a credential, no authorize, refresh, dispatch
\* or upload, successful or failed, leaves it without one.
C6_NeverBackToUnauthenticated ==
    [][token # <<>> => token' # <<>>]_vars

C6_Witness ==
    /\ token # <<>>
    /\ result.op \in {"make_request", "upload_media"}
    /\ result.kind = "ApiError"
    /\ reqs.token = 1

C8_FreshAtCreation ==
    (token # <<>> /\ clock = token[1].created_at) => ~IsExpired(token[1], clock)

\* C8: at the moment of its creation a credential reports not expired
\* exactly when its declared lifetime is at least 300 seconds.
C8_FreshAtCreationIffLongLived ==
    (token # <<>> /\ clock = token[1].created_at)
        => (IsExpired(token[1], clock) <=> token[1].expires_in < SafetyMarginSecs)

C8_Witness ==
    /\ token # <<>>
    /\ clock = token[1].created_at
    /\ token[1].expires_in = 300
    /\ ~IsExpired(token[1], clock)

\* C9 as claimed: a credential with expires_in = E >= 300 reports expired
\* from the moment E - 300 seconds have elapsed since its creation.
C9_ExpiredFromMargin ==
    (token # <<>> /\ token[1].expires_in >= SafetyMarginSecs)
        => (IsExpired(token[1], clock)
               <=> clock - token[1].created_at
                      >= Secs(token[1].expires_in - SafetyMarginSecs))

\* C9: a credential with expires_in = E >= 300 reports expired from the
\* moment E - 299 seconds have elapsed since its creation, and not expired
\* before, the moment E - 300 seconds have elapsed included.
C9_ExpiredPastMargin ==
    (token # <<>> /\ token[1].expires_in >= SafetyMarginSecs)
        => (IsExpired(token[1], clock)
               <=> clock - token[1].created_at
                      >= Secs(token[1].expires_in - SafetyMarginSecs + 1))

C9_Witness ==
    /\ token # <<>>
    /\ token[1].expires_in = 300
    /\ clock - token[1].created_at = Secs(1)
    /\ IsExpired(token[1], clock)
====
